---- MODULE Spec2Model ----
(***************************************************************************)
(* Lead Discovery & Enrichment Pipeline of lead-generator-flask.           *)
(*                                                                         *)
(* One behaviour is one pipeline execution, selected by prog:              *)
(*   "gl"   generate_leads            (scraper.py)                         *)
(*   "fl"   fetch_leads               (generate_leads_with_email.py,       *)
(*                                     generate_wellness_gym_leads.py),    *)
(*          with process crashes and restarts on the same output file      *)
(*   "li"   generate_linkedin_leads   (scraper_linkedin.py)                *)
(*   "b2b"  generate_b2b_partners     (scraper_b2b.py)                     *)
(*   "an"   analyze_csv_file          (analyzer.py)                        *)
(*   "key"  one evaluation of the dedup-key expression on one raw record   *)
(*   "pitch" one call of generate_website_pitch (analyzer.py)              *)
(*   "csv"  process_csv               (rescrape_emails.py,                 *)
(*                                     find_emails_google.py)              *)
(*   "paths" the output paths of concurrent generate_leads runs            *)
(* A "gl" or "li" run may be started through its route of app.py, which    *)
(* first validates the request.                                            *)
(***************************************************************************)
EXTENDS Integers, Sequences, FiniteSets, TLC

(***************************************************************************)
(* Bounds of the model.                                                    *)
(***************************************************************************)
MaxLimit == 3
MaxPages == 3
MaxRestarts == 1
NumQueries == 2
MaxSaveFailures == 1
MaxListLen == 4
\* Concurrent requests to /generate, and how far the clock runs (half seconds).
NumRuns == 2
MaxClock == 2
\* Rows of the CSV file given to process_csv.
MaxRows == 2

(***************************************************************************)
(* Program constants.                                                      *)
(***************************************************************************)
GLPageStep == 20
LIPageStep == 10
LIMaxStart == 30

(***************************************************************************)
(* Python values.  An optional string is None (absent / null) or a         *)
(* one-element tuple holding the string; "" is the empty string.           *)
(***************************************************************************)
None == <<>>
Some(s) == <<s>>

\* Python truthiness of an optional string: None and "" are falsy.
Truthy(v) == v # None /\ v[1] # ""

\* str() as applied by an f-string: None is rendered as the text "None".
Str(v) == IF v = None THEN "None" ELSE v[1]

\* A mutant of DedupKey: the address is used whenever it is not None.
DedupKeyAddrNotNone(r) ==
    IF Truthy(r.phone) THEN r.phone
    ELSE IF r.address # None THEN Some(Str(r.title) \o "|" \o Str(r.address))
    ELSE r.title

\* dedup_key = phone if phone else (f"{title}|{address}" if address else title)
DedupKey(r) ==
    IF Truthy(r.phone) THEN r.phone
    ELSE IF Truthy(r.address) THEN Some(Str(r.title) \o "|" \o Str(r.address))
    ELSE r.title

\* A mutant of Admit: a falsy key is admitted.
AdmitFalsyKey(key, seenSet) == key \notin seenSet

\* A mutant of Admit: the seen-set is not consulted.
AdmitIgnoringSeen(key, seenSet) == Truthy(key)

\* if dedup_key and dedup_key not in seen_identifiers
Admit(key, seenSet) == Truthy(key) /\ key \notin seenSet

\* A mutant of LimitReached: the limit is tested one lead too late.
LimitReachedLate(n, lim) == n > lim

\* if len(leads) >= limit: break   (while len(leads) < limit is its negation)
LimitReached(n, lim) == n >= lim

\* A mutant of SeenAdd: the key is not recorded.
SeenAddNothing(seenSet, key) == seenSet

\* seen_identifiers.add(dedup_key)
SeenAdd(seenSet, key) == seenSet \cup {key}

(***************************************************************************)
(* Raw records a provider returns.  link is the field the LinkedIn         *)
(* pipeline reads; the maps pipelines read the others.                     *)
(***************************************************************************)
RecA  == [title |-> Some("t1"), phone |-> Some("p1"), address |-> Some("a1"),
          website |-> Some("w1"), link |-> "linkedin.com/in/a"]
RecA2 == [title |-> Some("t2"), phone |-> Some("p1"), address |-> None,
          website |-> None, link |-> "linkedin.com/in/a"]
RecB  == [title |-> None, phone |-> None, address |-> Some("a1"),
          website |-> Some("w2"), link |-> "linkedin.com/company/b"]
RecC  == [title |-> Some(""), phone |-> None, address |-> Some(""),
          website |-> None, link |-> ""]
RecD  == [title |-> Some("t1"), phone |-> Some(""), address |-> None,
          website |-> None, link |-> "linkedin.com/in/d"]

\* "/in/" in link
HasIn(link) == link \in {"linkedin.com/in/a", "linkedin.com/in/d"}

\* Every combination of absent, empty and present title, phone and address.
OptTitle == {None, Some(""), Some("t1")}
OptPhone == {None, Some(""), Some("p1")}
OptAddress == {None, Some(""), Some("a1")}
OptWebsite == {None, Some("w1")}
AllRecords ==
    [title : OptTitle, phone : OptPhone, address : OptAddress,
     website : OptWebsite, link : {""}]

(***************************************************************************)
(* The provider: a deterministic function of (query, page), one of a       *)
(* family selected by seed and stride.  A response is a page of records    *)
(* or a failure (the call raises).  After MaxPages pages of a query the    *)
(* provider is exhausted and returns zero records.                         *)
(***************************************************************************)
Page(recs) == [fail |-> FALSE, recs |-> recs]
EmptyPage == Page(<<>>)
FailPage == [fail |-> TRUE, recs |-> <<>>]

PageList ==
    << Page(<<RecA, RecA2>>),
       Page(<<RecB, RecD>>),
       Page(<<RecD, RecD>>),
       Page(<<RecB>>),
       EmptyPage,
       FailPage,
       Page(<<RecC, RecA>>) >>

NumPageKinds == Len(PageList)

\* The providers the model runs against.
Seeds == 0 .. (NumPageKinds - 1)
Strides == {1, 2}

ProviderAt(sd, st, q, p) ==
    IF p > MaxPages THEN EmptyPage
    ELSE PageList[((sd + st * ((q - 1) * MaxPages + (p - 1))) % NumPageKinds) + 1]

(***************************************************************************)
(* Events (section 6 wire shape; message texts are not modelled).          *)
(***************************************************************************)
LogEv == [type |-> "log", count |-> 0, total |-> 0]
ProgressEv(c, t) == [type |-> "progress", count |-> c, total |-> t]
ErrorEv == [type |-> "error", count |-> 0, total |-> 0]
\* A mutant of DoneEv: the count reported is one more than the leads held.
DoneEvOffByOne(c) == [type |-> "done", count |-> c + 1, total |-> 0]
DoneEv(c) == [type |-> "done", count |-> c, total |-> 0]

(***************************************************************************)
(* Enrichment.  What a website scrape meets is the environment's choice:   *)
(*   found    200, an e-mail address on the page                           *)
(*   nothing  200, no e-mail address                                       *)
(*   non200   a non-200 response                                           *)
(*   neterr   requests raises a RequestException (network error, timeout)  *)
(*   parse    the content makes the parser raise (not a RequestException)  *)
(***************************************************************************)
ScrapeOutcomes == {"found", "nothing", "non200", "neterr", "parse"}
ScrapeFailures == {"non200", "neterr", "parse"}

\* scrape_email_from_website: every exception is caught, "" is returned.
ScrapeEmail(outcome) == IF outcome = "found" THEN "e@x" ELSE ""

\* What analyze_csv_file finds at input_filepath.
InputKinds == {"missing", "unreadable", "nocolumn", "ok"}

VARIABLES
    prog,        \* which pipeline this behaviour executes
    req,         \* the HTTP request, when the run is started through app.py
    pitchIn,     \* "pitch": the arguments and the AI response of generate_website_pitch
    pc,          \* position in it
    limit,       \* the limit argument
    reqEmail,    \* require_email
    reqWebsite,  \* require_website
    seed,        \* provider selection
    stride,      \* provider selection
    nq,          \* number of queries generate_smart_queries returned
    inputKind,   \* analyze_csv_file: state of the uploaded file
    rec,         \* "key": the raw record
    keyOut,      \* "key": the computed dedup key
    leads,       \* leads
    seen,        \* seen_identifiers / seen_links
    start,       \* pagination cursor
    qi,          \* index of the current query
    page,        \* records of the current page not yet examined
    events,      \* the events yielded so far
    hist,        \* what happened to each raw record examined (history)
    calls,       \* provider calls made by this run
    file,        \* the CSV output file of fetch_leads
    rowsAtStart, \* data rows the file held when this run started
    restarts,    \* crashes / re-runs so far
    xlsx,        \* whether the workbook has been saved
    httpStatus,  \* HTTP status of the route's response (0: none yet)
    pitch,       \* "pitch": the list generate_website_pitch returned
    fetched,     \* the (query, cursor) pairs of the provider calls of this run
    csvIn,       \* "csv": the script run and the CSV file it is given
    now,         \* "paths": the wall clock, in half seconds
    paths,       \* "paths": the output paths the started runs have computed
    sincePause   \* network calls (provider, enrichment) of generate_leads,
                 \* generate_linkedin_leads or fetch_leads since its last
                 \* time.sleep (history)

args == <<prog, req, pitchIn, limit, reqEmail, reqWebsite, seed, stride, nq,
          inputKind, rec, csvIn>>
cfg == <<args, now, paths>>
flv == <<file, rowsAtStart, restarts>>
aux == <<httpStatus, pitch, fetched, sincePause>>
vars == <<cfg, pc, keyOut, leads, seen, start, qi, page, events, hist, calls,
          flv, xlsx, aux>>

Provider(q, p) == ProviderAt(seed, stride, q, p)

Limits == (0 - 1) .. MaxLimit
\* A run other than "pitch" has no pitch input.
NoPitch == [scraped |-> FALSE, kind |-> "none", len |-> 0]
\* A run that is called directly has no request.
NoRequest == [route |-> "none"]
NoFile == [exists |-> FALSE, headers |-> 0, rows |-> <<>>]
\* A run other than "csv" is given no CSV file to process.
NoCsv == [script |-> "none", exists |-> FALSE, rows |-> <<>>]

InitRun ==
    /\ keyOut = None
    /\ httpStatus = 0
    /\ pitch = <<>>
    /\ fetched = <<>>
    /\ sincePause = 0
    /\ now = 0
    /\ paths = <<>>
    /\ leads = <<>>
    /\ seen = {}
    /\ start = 0
    /\ qi = 1
    /\ page = <<>>
    /\ events = <<>>
    /\ hist = <<>>
    /\ calls = 0
    /\ file = [exists |-> csvIn.exists,
               headers |-> IF csvIn.exists THEN 1 ELSE 0,
               rows |-> csvIn.rows]
    /\ rowsAtStart = 0
    /\ restarts = 0
    /\ xlsx = FALSE

InitGL ==
    /\ prog = "gl"
    /\ pc = "start"
    /\ req = NoRequest
    /\ pitchIn = NoPitch
    /\ limit \in Limits
    /\ reqEmail \in BOOLEAN
    /\ reqWebsite \in BOOLEAN
    /\ seed \in Seeds
    /\ stride \in Strides
    /\ nq = 1
    /\ inputKind = "ok"
    /\ csvIn = NoCsv
    /\ rec = RecC

InitKey ==
    /\ prog = "key"
    /\ pc = "start"
    /\ req = NoRequest
    /\ pitchIn = NoPitch
    /\ limit = 0
    /\ reqEmail = FALSE
    /\ reqWebsite = FALSE
    /\ seed = 0
    /\ stride = 0
    /\ nq = 1
    /\ inputKind = "ok"
    /\ csvIn = NoCsv
    /\ rec \in AllRecords

InitFL ==
    /\ prog = "fl"
    /\ pc = "start"
    /\ req = NoRequest
    /\ pitchIn = NoPitch
    /\ limit \in Limits
    /\ reqEmail = FALSE
    /\ reqWebsite = FALSE
    /\ seed \in Seeds
    /\ stride = 1
    /\ nq = NumQueries
    /\ inputKind = "ok"
    /\ csvIn = NoCsv
    /\ rec = RecC

InitLI ==
    /\ prog = "li"
    /\ pc = "start"
    /\ req = NoRequest
    /\ pitchIn = NoPitch
    /\ limit \in Limits
    /\ reqEmail = FALSE
    /\ reqWebsite = FALSE
    /\ seed \in Seeds
    /\ stride \in Strides
    /\ nq \in 1 .. NumQueries
    /\ inputKind = "ok"
    /\ csvIn = NoCsv
    /\ rec = RecC

InitB2B ==
    /\ prog = "b2b"
    /\ pc = "start"
    /\ req = NoRequest
    /\ pitchIn = NoPitch
    /\ limit \in Limits
    /\ reqEmail = FALSE
    /\ reqWebsite = FALSE
    /\ seed \in Seeds
    /\ stride \in Strides
    /\ nq = 1
    /\ inputKind = "ok"
    /\ csvIn = NoCsv
    /\ rec = RecC

InitAN ==
    /\ prog = "an"
    /\ pc = "start"
    /\ req = NoRequest
    /\ pitchIn = NoPitch
    /\ limit = 0
    /\ reqEmail = FALSE
    /\ reqWebsite = FALSE
    /\ seed \in Seeds
    /\ stride \in Strides
    /\ nq = 1
    /\ inputKind \in InputKinds
    /\ csvIn = NoCsv
    /\ rec = RecC

(***************************************************************************)
(* Requests to the routes /generate and /generate_linkedin (app.py:37-98). *)
(* keyword is the goal argument of /generate_linkedin; env_serp and        *)
(* env_gemini are SERPAPI_KEY and GEMINI_API_KEY of the environment.       *)
(***************************************************************************)
Requests ==
    [route : {"generate", "generate_linkedin"},
     keyword : {"", "k"}, location : {"", "l"},
     api_key : {"", " ", "rk"},
     env_serp : {None, Some("ek")}, env_gemini : {None, Some("gk")}]

\* str.strip()
Strip(s) == IF s = " " THEN "" ELSE s

\* final_api_key = user_api_key if user_api_key else api_key
FinalApiKey(r) ==
    IF Strip(r.api_key) # "" THEN Some(Strip(r.api_key)) ELSE r.env_serp

\* gemini_key = user_api_key if user_api_key else os.getenv("GEMINI_API_KEY")
GeminiKey(r) ==
    IF Strip(r.api_key) # "" THEN Some(Strip(r.api_key)) ELSE r.env_gemini

\* A mutant of RequestAccepted: the API key is not checked.
RequestAcceptedAnyKey(r) == r.keyword # "" /\ r.location # ""

\* app.py:53-57, 82-89: none of the early returns is taken
RequestAccepted(r) ==
    /\ r.keyword # ""
    /\ r.location # ""
    /\ Truthy(FinalApiKey(r))
    /\ r.route = "generate_linkedin" => Truthy(GeminiKey(r))

InitRoute ==
    /\ req \in Requests
    /\ prog = (IF req.route = "generate" THEN "gl" ELSE "li")
    /\ pc = "request"
    /\ pitchIn = NoPitch
    /\ limit \in Limits
    /\ reqEmail = FALSE
    /\ reqWebsite = FALSE
    /\ seed = 0
    /\ stride = 1
    /\ nq = (IF req.route = "generate" THEN 1 ELSE NumQueries)
    /\ inputKind = "ok"
    /\ csvIn = NoCsv
    /\ rec = RecC

\* app.py:37-67, 69-98: the route answers 400, or answers with the event
\* stream of the generator, which then starts.
RouteRequest ==
    /\ pc = "request"
    /\ IF RequestAccepted(req)
       THEN /\ httpStatus' = 200
            /\ pc' = "start"
       ELSE /\ httpStatus' = 400
            /\ pc' = "rejected"
    /\ UNCHANGED <<cfg, pitch, fetched, sincePause, keyOut, leads, seen, start, qi,
                   page, events, hist, calls, flv, xlsx>>

(***************************************************************************)
(* "pitch": generate_website_pitch (analyzer.py:50-120).  scraped says     *)
(* whether scraped_data is truthy; kind is what the AI call meets:         *)
(*   raise    the client or the call raises                                *)
(*   notext   the response has no text (response.text is None)             *)
(*   nonjson  the text is not JSON                                         *)
(*   nonlist  the text is JSON but not a list                              *)
(*   list     the text is a JSON list of len items                         *)
(***************************************************************************)
PitchInputs ==
    {[scraped |-> sc, kind |-> k, len |-> n] :
        sc \in BOOLEAN, k \in {"raise", "notext", "nonjson", "nonlist"}, n \in {0}}
    \cup [scraped : BOOLEAN, kind : {"list"}, len : 0 .. MaxListLen]

\* A mutant of PointsKept: the list is not cut to three points.
PointsKeptAll(n) == n

\* points_list[:3]
PointsKept(n) == IF n < 3 THEN n ELSE 3

GenerateWebsitePitch(in) ==
    IF ~in.scraped THEN <<"Failed to extract website data.">>
    ELSE IF in.kind \in {"raise", "notext"} THEN <<"AI Generation Error">>
    ELSE IF in.kind = "list" /\ in.len > 0
         THEN [i \in 1 .. PointsKept(in.len) |-> "point"]
    ELSE <<"raw text">>

InitPitch ==
    /\ prog = "pitch"
    /\ pc = "start"
    /\ req = NoRequest
    /\ pitchIn \in PitchInputs
    /\ limit = 0
    /\ reqEmail = FALSE
    /\ reqWebsite = FALSE
    /\ seed = 0
    /\ stride = 0
    /\ nq = 1
    /\ inputKind = "ok"
    /\ csvIn = NoCsv
    /\ rec = RecC

PitchStep ==
    /\ prog = "pitch"
    /\ pc = "start"
    /\ pitch' = GenerateWebsitePitch(pitchIn)
    /\ pc' = "ended"
    /\ UNCHANGED <<cfg, httpStatus, fetched, sincePause, keyOut, leads, seen, start,
                   qi, page, events, hist, calls, flv, xlsx>>

(***************************************************************************)
(* "csv": process_csv of rescrape_emails.py (79-124) and of                *)
(* find_emails_google.py (110-150) on one CSV file of the folder.  leads   *)
(* is the list rows, page the indices of missing not yet visited (from 1). *)
(***************************************************************************)
\* The rows csv.DictReader yields: every value is a string.
CsvRowKinds ==
    {[title |-> Some("t1"), address |-> Some("a1"), phone |-> Some(""),
      website |-> Some(w), email |-> e] :
        w \in {"", " ", "w1"}, e \in {"", " ", "e@x"}}

RECURSIVE SeqsUpTo(_, _)
SeqsUpTo(S, n) ==
    IF n = 0 THEN {<<>>}
    ELSE LET shorter == SeqsUpTo(S, n - 1) IN
         shorter \cup {Append(q, x) : q \in {r \in shorter : Len(r) = n - 1}, x \in S}

CsvInputs ==
    {[script |-> sc, exists |-> FALSE, rows |-> <<>>] : sc \in {"rescrape", "google"}}
    \cup [script : {"rescrape", "google"}, exists : {TRUE},
          rows : SeqsUpTo(CsvRowKinds, MaxRows)]

\* A mutant of IsMissing: every row is taken to miss its e-mail.
IsMissingAlways(row) == TRUE

\* not r.get('email', '').strip()
IsMissing(row) == Strip(row.email) = ""

\* missing = [i for i, r in enumerate(rows) if not r.get('email', '').strip()]
RECURSIVE MissingFrom(_, _)
MissingFrom(rows, i) ==
    IF i > Len(rows) THEN <<>>
    ELSE (IF IsMissing(rows[i]) THEN <<i>> ELSE <<>>) \o MissingFrom(rows, i + 1)

Missing(rows) == MissingFrom(rows, 1)

\* scrape_email / search_email_google: an e-mail list, or "" (they catch
\* every exception).
LookupOutcomes == {"found", "nothing"}
LookupEmail(outcome) == IF outcome = "found" THEN "e@y" ELSE ""

InitCsv ==
    /\ prog = "csv"
    /\ pc = "start"
    /\ req = NoRequest
    /\ pitchIn = NoPitch
    /\ limit = 0
    /\ reqEmail = FALSE
    /\ reqWebsite = FALSE
    /\ seed = 0
    /\ stride = 0
    /\ nq = 1
    /\ inputKind = "none"
    /\ rec = RecC
    /\ csvIn \in CsvInputs

\* rescrape_emails.py:80-97, find_emails_google.py:111-126
CsvRead ==
    /\ prog = "csv"
    /\ pc = "start"
    /\ IF ~file.exists
       THEN /\ pc' = "ended"
            /\ UNCHANGED <<leads, page>>
       ELSE /\ leads' = file.rows
            /\ page' = Missing(file.rows)
            /\ pc' = (IF Missing(file.rows) = <<>> THEN "ended" ELSE "rec")
    /\ UNCHANGED <<cfg, aux, keyOut, seen, start, qi, events, hist, calls, flv, xlsx>>

\* rescrape_emails.py:100-116, find_emails_google.py:129-142: one missing row
CsvLookup ==
    /\ prog = "csv"
    /\ pc = "rec"
    /\ page # <<>>
    /\ LET idx == Head(page)
           row == leads[idx]
           skipped == csvIn.script = "rescrape" /\ Strip(row.website[1]) = ""
       IN  \E outcome \in LookupOutcomes :
             LET email == IF skipped THEN "" ELSE LookupEmail(outcome) IN
             /\ skipped => outcome = "nothing"
             /\ leads' = (IF email # "" THEN [leads EXCEPT ![idx].email = email]
                          ELSE leads)
             /\ hist' = Append(hist,
                    [rec |-> row, scraped |-> ~skipped, failed |-> FALSE,
                     email |-> email, accepted |-> email # "", saved |-> FALSE])
    /\ page' = Tail(page)
    /\ UNCHANGED <<cfg, aux, pc, keyOut, seen, start, qi, events, calls, flv, xlsx>>

\* rescrape_emails.py:118-124, find_emails_google.py:144-150: the rewrite
CsvRewrite ==
    /\ prog = "csv"
    /\ pc = "rec"
    /\ page = <<>>
    /\ file' = [exists |-> TRUE, headers |-> 1, rows |-> leads]
    /\ pc' = "ended"
    /\ UNCHANGED <<cfg, aux, keyOut, leads, seen, start, qi, page, events, hist, calls,
                   rowsAtStart, restarts, xlsx>>

(***************************************************************************)
(* "paths": the output path of generate_leads (scraper.py:194-200), for    *)
(* NumRuns runs started through /generate (app.py:59-67; the server runs   *)
(* each request in its own thread).  Strings are sequences of characters.  *)
(***************************************************************************)
\* Keywords and locations of accepted requests (non-empty).
Keywords == {<<"a", " ", "b">>, <<"a", "_", "b">>, <<"a">>}
Locations == {<<"c">>, <<"b", "_", "c">>}

\* re.sub(r'[^a-zA-Z0-9]', '_', s)
Safe(s) == [i \in 1 .. Len(s) |-> IF s[i] \in {"a", "b", "c"} THEN s[i] ELSE "_"]

\* datetime.datetime.now().strftime("%Y%m%d_%H%M%S"): the whole second
Timestamp(t) == t \div 2

\* f"leads_{safe_keyword}_{safe_location}_{timestamp}.xlsx" in generated_leads
XlsxOutputPath(keyword, location, t) ==
    <<"generated_leads/", "leads_">> \o Safe(keyword) \o <<"_">> \o Safe(location)
        \o <<"_", Timestamp(t), ".xlsx">>

InitPaths ==
    /\ prog = "paths"
    /\ pc = "start"
    /\ req = NoRequest
    /\ pitchIn = NoPitch
    /\ limit = 0
    /\ reqEmail = FALSE
    /\ reqWebsite = FALSE
    /\ seed = 0
    /\ stride = 0
    /\ nq = 1
    /\ inputKind = "ok"
    /\ csvIn = NoCsv
    /\ rec = RecC

\* Time passes.
PathTick ==
    /\ prog = "paths"
    /\ now < MaxClock
    /\ now' = now + 1
    /\ UNCHANGED <<args, paths, pc, keyOut, leads, seen, start, qi, page, events, hist,
                   calls, flv, xlsx, aux>>

\* scraper.py:194-200: a run reads the clock and computes its output path
PathRun ==
    /\ prog = "paths"
    /\ Len(paths) < NumRuns
    /\ \E keyword \in Keywords, location \in Locations :
         paths' = Append(paths, XlsxOutputPath(keyword, location, now))
    /\ UNCHANGED <<args, now, pc, keyOut, leads, seen, start, qi, page, events, hist,
                   calls, flv, xlsx, aux>>

Init ==
    /\ (InitGL \/ InitFL \/ InitLI \/ InitB2B \/ InitAN \/ InitKey
          \/ InitRoute \/ InitPitch \/ InitPaths \/ InitCsv)
    /\ InitRun

(***************************************************************************)
(* "key": the dedup-key expression of scraper.py:235 on one record.        *)
(***************************************************************************)
KeyStep ==
    /\ prog = "key"
    /\ pc = "start"
    /\ keyOut' = DedupKey(rec)
    /\ pc' = "ended"
    /\ UNCHANGED <<cfg, aux, leads, seen, start, qi, page, events, hist, calls, flv, xlsx>>

(***************************************************************************)
(* generate_leads (scraper.py:186-300).                                    *)
(***************************************************************************)
\* A mutant of GLNextStart: the cursor is not advanced.
GLNextStartStuck(s) == s

\* start += 20
GLNextStart(s) == s + GLPageStep

\* scraper.py:191-205
GLStart ==
    /\ prog = "gl"
    /\ pc = "start"
    /\ events' = Append(events, LogEv)
    /\ start' = 0
    /\ pc' = "loop"
    /\ UNCHANGED <<cfg, aux, keyOut, leads, seen, qi, page, hist, calls, flv, xlsx>>

\* scraper.py:207: the while condition is false
GLLoopExit ==
    /\ prog = "gl"
    /\ pc = "loop"
    /\ LimitReached(Len(leads), limit)
    /\ pc' = "export"
    /\ UNCHANGED <<cfg, aux, keyOut, leads, seen, start, qi, page, events, hist, calls,
                   flv, xlsx>>

\* scraper.py:208-224, 280-282: one provider call
GLFetch ==
    /\ prog = "gl"
    /\ pc = "loop"
    /\ ~LimitReached(Len(leads), limit)
    /\ calls' = calls + 1
    /\ fetched' = Append(fetched, <<1, start>>)
    /\ sincePause' = sincePause + 1
    /\ LET resp == Provider(1, (start \div GLPageStep) + 1) IN
       \/ /\ resp.fail
          /\ events' = events \o <<LogEv, ErrorEv>>
          /\ pc' = "ended"
          /\ page' = <<>>
       \/ /\ ~resp.fail
          /\ resp.recs = <<>>
          /\ events' = events \o <<LogEv, LogEv>>
          /\ pc' = "export"
          /\ page' = <<>>
       \/ /\ ~resp.fail
          /\ resp.recs # <<>>
          /\ events' = Append(events, LogEv)
          /\ pc' = "rec"
          /\ page' = resp.recs
    /\ UNCHANGED <<cfg, httpStatus, pitch, keyOut, leads, seen, start, qi, hist, flv, xlsx>>

\* scraper.py:226-228, 277-278: the page is finished, or the limit is reached
GLPageEnd ==
    /\ prog = "gl"
    /\ pc = "rec"
    /\ (page = <<>> \/ LimitReached(Len(leads), limit))
    /\ page' = <<>>
    /\ start' = GLNextStart(start)
    /\ sincePause' = 0
    /\ pc' = "loop"
    /\ UNCHANGED <<cfg, httpStatus, pitch, fetched, keyOut, leads, seen, qi, events, hist, calls, flv, xlsx>>

GLLead(r, email) ==
    [title |-> r.title, address |-> r.address, phone |-> r.phone,
     website |-> r.website, email |-> email]

\* scraper.py:230-275: one raw record
GLRecord ==
    /\ prog = "gl"
    /\ pc = "rec"
    /\ page # <<>>
    /\ ~LimitReached(Len(leads), limit)
    /\ LET r == Head(page)
           key == DedupKey(r)
       IN  /\ page' = Tail(page)
           /\ IF Admit(key, seen)
              THEN \E outcome \in ScrapeOutcomes :
                     LET scraped == Truthy(r.website)
                         email == IF scraped THEN ScrapeEmail(outcome) ELSE ""
                         scrapeLogs == IF scraped
                                       THEN (IF email # "" THEN <<LogEv, LogEv>>
                                             ELSE <<LogEv>>)
                                       ELSE <<>>
                         skip == (reqWebsite /\ ~Truthy(r.website))
                                 \/ (reqEmail /\ email = "")
                     IN  /\ seen' = SeenAdd(seen, key)
                         /\ sincePause' = sincePause + (IF scraped THEN 1 ELSE 0)
                         /\ hist' = Append(hist,
                                [rec |-> r, scraped |-> scraped,
                                 failed |-> scraped /\ outcome \in ScrapeFailures,
                                 email |-> email, accepted |-> ~skip, saved |-> FALSE])
                         /\ IF skip
                            THEN /\ events' = events \o scrapeLogs \o <<LogEv>>
                                 /\ leads' = leads
                            ELSE /\ leads' = Append(leads, GLLead(r, email))
                                 /\ events' = events \o scrapeLogs
                                        \o <<ProgressEv(Len(leads) + 1, limit)>>
              ELSE /\ hist' = Append(hist,
                          [rec |-> r, scraped |-> FALSE, failed |-> FALSE,
                           email |-> "", accepted |-> FALSE, saved |-> FALSE])
                   /\ UNCHANGED <<seen, leads, events, sincePause>>
    /\ UNCHANGED <<cfg, httpStatus, pitch, fetched, pc, keyOut, start, qi, calls, flv,
                   xlsx>>

\* A mutant of GLExport: a failed export is reported and the run goes on to
\* report done.
GLExportErrorThenDone ==
    /\ prog = "gl"
    /\ pc = "export"
    /\ pc' = "ended"
    /\ events' = events \o <<LogEv, ErrorEv, DoneEv(Len(leads))>>
    /\ UNCHANGED <<cfg, aux, keyOut, leads, seen, start, qi, page, hist, calls, flv,
                   xlsx>>

\* scraper.py:284-300: the workbook, then the done event
GLExport ==
    /\ prog = "gl"
    /\ pc = "export"
    /\ pc' = "ended"
    /\ \/ /\ leads = <<>>
          /\ events' = events \o <<LogEv, DoneEv(Len(leads))>>
          /\ xlsx' = xlsx
       \/ /\ leads # <<>>
          /\ events' = events \o <<LogEv, LogEv, DoneEv(Len(leads))>>
          /\ xlsx' = TRUE
       \/ /\ leads # <<>>
          /\ events' = events \o <<LogEv, ErrorEv>>
          /\ xlsx' = xlsx
    /\ UNCHANGED <<cfg, aux, keyOut, leads, seen, start, qi, page, hist, calls, flv>>

(***************************************************************************)
(* fetch_leads and save_lead_incrementally                                 *)
(* (generate_leads_with_email.py:99-210,                                   *)
(*  generate_wellness_gym_leads.py:94-181).  The nested loops over         *)
(* locations and base queries are one loop over their product, of          *)
(* NumQueries queries: both loops break on the same condition.             *)
(***************************************************************************)
\* csv.DictWriter writes None as the empty string.
CsvCell(v) == IF v = None THEN "" ELSE v[1]

\* The row csv.DictReader reads back for a lead written by csv.DictWriter:
\* every value is a string.
ToRow(l) ==
    [title |-> Some(CsvCell(l.title)), address |-> Some(CsvCell(l.address)),
     phone |-> Some(CsvCell(l.phone)), website |-> Some(CsvCell(l.website)),
     email |-> l.email]

\* A mutant of SaveLead: the header is written on every call.
SaveLeadHeaderAlways(f, l) ==
    [exists |-> TRUE, headers |-> f.headers + 1, rows |-> Append(f.rows, ToRow(l))]

\* save_lead_incrementally returning: append mode; the header is written
\* when os.path.isfile said the file did not exist.
SaveLead(f, l) ==
    [exists |-> TRUE,
     headers |-> IF f.exists THEN f.headers ELSE f.headers + 1,
     rows |-> Append(f.rows, ToRow(l))]

\* What a call of save_lead_incrementally meets:
\*   written    it returns
\*   unopened   open() raises; the file is untouched
\*   unwritten  open() has created or opened the file, then a write or the
\*              flush on close raises: nothing has reached the file
SaveOutcomes == {"written", "unopened", "unwritten"}

\* The file after a call that raised.
SaveFailed(f, how) == IF how = "unopened" THEN f ELSE [f EXCEPT !.exists = TRUE]

\* Calls of save_lead_incrementally that raised in this run.
RECURSIVE SaveFailures(_)
SaveFailures(h) ==
    IF h = <<>> THEN 0
    ELSE (IF Head(h).accepted /\ ~Head(h).saved THEN 1 ELSE 0) + SaveFailures(Tail(h))

\* What csv.DictReader yields for the file: without a header line the first
\* data row is taken for the field names, and the rows after it have none of
\* the fields title, phone and address.
BlankRow ==
    [title |-> None, address |-> None, phone |-> None, website |-> None,
     email |-> ""]
ReadRows(f) ==
    IF f.headers > 0 THEN f.rows
    ELSE [i \in 1 .. (IF f.rows = <<>> THEN 0 ELSE Len(f.rows) - 1) |-> BlankRow]

\* The rows of a resume load whose recomputed key is truthy (lines 123-130).
RECURSIVE LoadedLeads(_)
LoadedLeads(rows) ==
    IF rows = <<>> THEN <<>>
    ELSE LET rest == LoadedLeads(Tail(rows)) IN
         IF Truthy(DedupKey(Head(rows))) THEN <<Head(rows)>> \o rest ELSE rest

LoadedKeys(rows) ==
    {DedupKey(rows[i]) : i \in {j \in 1 .. Len(rows) : Truthy(DedupKey(rows[j]))}}

\* generate_leads_with_email.py:114-116, no file yet
FLStartFresh ==
    /\ prog = "fl"
    /\ pc = "start"
    /\ ~file.exists
    /\ leads' = <<>>
    /\ seen' = {}
    /\ rowsAtStart' = 0
    /\ qi' = 1
    /\ pc' = "loop"
    /\ UNCHANGED <<cfg, aux, keyOut, start, page, events, hist, calls, file, restarts, xlsx>>

\* generate_leads_with_email.py:118-133: the resume load.  Reading may raise
\* after any number n of rows; the exception is logged and the run goes on.
FLStartResume ==
    /\ prog = "fl"
    /\ pc = "start"
    /\ file.exists
    /\ \E n \in 0 .. Len(ReadRows(file)) :
         LET read == SubSeq(ReadRows(file), 1, n) IN
         /\ leads' = LoadedLeads(read)
         /\ seen' = LoadedKeys(read)
    /\ rowsAtStart' = Len(file.rows)
    /\ qi' = 1
    /\ pc' = "loop"
    /\ UNCHANGED <<cfg, aux, keyOut, start, page, events, hist, calls, file, restarts, xlsx>>

\* lines 135-141 and the end of both loops
FLLoopExit ==
    /\ prog = "fl"
    /\ pc = "loop"
    /\ (qi > nq \/ LimitReached(Len(leads), limit))
    /\ pc' = "ended"
    /\ UNCHANGED <<cfg, aux, keyOut, leads, seen, start, qi, page, events, hist, calls,
                   flv, xlsx>>

\* lines 143-161, 206-208: one provider call, always with start = 0
FLFetch ==
    /\ prog = "fl"
    /\ pc = "loop"
    /\ qi <= nq
    /\ ~LimitReached(Len(leads), limit)
    /\ calls' = calls + 1
    /\ fetched' = Append(fetched, <<qi, 0>>)
    /\ LET resp == Provider(qi, 1) IN
       \* lines 206-208: the handler sleeps
       \/ /\ resp.fail
          /\ qi' = qi + 1
          /\ sincePause' = 0
          /\ UNCHANGED <<pc, page>>
       \* lines 159-161: continue, past the sleep of line 204
       \/ /\ ~resp.fail
          /\ resp.recs = <<>>
          /\ qi' = qi + 1
          /\ sincePause' = sincePause + 1
          /\ UNCHANGED <<pc, page>>
       \/ /\ ~resp.fail
          /\ resp.recs # <<>>
          /\ page' = resp.recs
          /\ pc' = "rec"
          /\ qi' = qi
          /\ sincePause' = sincePause + 1
    /\ UNCHANGED <<cfg, httpStatus, pitch, keyOut, leads, seen, start, events, hist, flv, xlsx>>

\* lines 164-166, 202-204
FLPageEnd ==
    /\ prog = "fl"
    /\ pc = "rec"
    /\ (page = <<>> \/ LimitReached(Len(leads), limit))
    /\ page' = <<>>
    /\ qi' = qi + 1
    /\ sincePause' = 0
    /\ pc' = "loop"
    /\ UNCHANGED <<cfg, httpStatus, pitch, fetched, keyOut, leads, seen, start, events,
                   hist, calls, flv, xlsx>>

\* lines 168-200: one raw record
FLRecord ==
    /\ prog = "fl"
    /\ pc = "rec"
    /\ page # <<>>
    /\ ~LimitReached(Len(leads), limit)
    /\ LET r == Head(page)
           key == DedupKey(r)
       IN  IF Admit(key, seen)
           THEN \E outcome \in ScrapeOutcomes, how \in SaveOutcomes :
                  LET scraped == Truthy(r.website)
                      email == IF scraped THEN ScrapeEmail(outcome) ELSE ""
                      lead == GLLead(r, email)
                      entry == [rec |-> r, scraped |-> scraped,
                                failed |-> scraped /\ outcome \in ScrapeFailures,
                                email |-> email, accepted |-> TRUE,
                                saved |-> how = "written"]
                  IN  /\ how # "written" => SaveFailures(hist) < MaxSaveFailures
                      /\ seen' = SeenAdd(seen, key)
                      /\ hist' = Append(hist, entry)
                      /\ leads' = Append(leads, lead)
                      /\ IF how = "written"
                         THEN /\ file' = SaveLead(file, lead)
                              /\ page' = Tail(page)
                              /\ sincePause' = sincePause + (IF scraped THEN 1 ELSE 0)
                              /\ UNCHANGED <<pc, qi>>
                         \* lines 206-208: the exception ends the query
                         ELSE /\ file' = SaveFailed(file, how)
                              /\ sincePause' = 0
                              /\ page' = <<>>
                              /\ qi' = qi + 1
                              /\ pc' = "loop"
           ELSE /\ hist' = Append(hist,
                       [rec |-> r, scraped |-> FALSE, failed |-> FALSE,
                        email |-> "", accepted |-> FALSE, saved |-> FALSE])
                /\ page' = Tail(page)
                /\ UNCHANGED <<seen, leads, file, pc, qi, sincePause>>
    /\ UNCHANGED <<cfg, httpStatus, pitch, fetched, keyOut, start, events, calls,
                   rowsAtStart, restarts, xlsx>>

\* The process is killed, or has returned, and fetch_leads is started again
\* with the same arguments: memory is lost, the file stays.
FLRestart ==
    /\ prog = "fl"
    /\ restarts < MaxRestarts
    /\ restarts' = restarts + 1
    /\ pc' = "start"
    /\ leads' = <<>>
    /\ seen' = {}
    /\ page' = <<>>
    /\ qi' = 1
    /\ calls' = 0
    /\ fetched' = <<>>
    /\ sincePause' = 0
    /\ hist' = <<>>
    /\ rowsAtStart' = Len(file.rows)
    /\ UNCHANGED <<cfg, httpStatus, pitch, keyOut, start, events, file, xlsx>>

(***************************************************************************)
(* generate_linkedin_leads (scraper_linkedin.py:159-268).  nq is the       *)
(* number of queries generate_smart_queries returned.                      *)
(***************************************************************************)
\* evaluate_vendor_match: the AI call answers, raises, or is not made.
MatchOutcomes == {"ok", "error", "unavailable"}

\* scraper_linkedin.py:48-68: never raises
EvaluateMatch(outcome) ==
    CASE outcome = "ok" -> "reason"
      [] outcome = "error" -> "Potential profile match."
      [] OTHER -> "Match evaluation unavailable."

\* start += 10
LINextStart(s) == s + LIPageStep

\* scraper_linkedin.py:164-177
LIStart ==
    /\ prog = "li"
    /\ pc = "start"
    /\ events' = events \o <<LogEv, LogEv>>
    /\ qi' = 1
    /\ pc' = "query"
    /\ UNCHANGED <<cfg, aux, keyOut, leads, seen, start, page, hist, calls, flv, xlsx>>

\* scraper_linkedin.py:179-185: the next query, or the end of the queries
LIQuery ==
    /\ prog = "li"
    /\ pc = "query"
    /\ IF qi > nq \/ LimitReached(Len(leads), limit)
       THEN /\ pc' = "export"
            /\ UNCHANGED <<events, start>>
       ELSE /\ events' = Append(events, LogEv)
            /\ start' = 0
            /\ pc' = "loop"
    /\ UNCHANGED <<cfg, aux, keyOut, leads, seen, qi, page, hist, calls, flv, xlsx>>

\* scraper_linkedin.py:186: the while condition is false
LILoopExit ==
    /\ prog = "li"
    /\ pc = "loop"
    /\ (LimitReached(Len(leads), limit) \/ ~(start < LIMaxStart))
    /\ qi' = qi + 1
    /\ pc' = "query"
    /\ UNCHANGED <<cfg, aux, keyOut, leads, seen, start, page, events, hist, calls, flv,
                   xlsx>>

\* scraper_linkedin.py:187-201, 250-252: one provider call
LIFetch ==
    /\ prog = "li"
    /\ pc = "loop"
    /\ ~LimitReached(Len(leads), limit)
    /\ start < LIMaxStart
    /\ calls' = calls + 1
    /\ fetched' = Append(fetched, <<qi, start>>)
    /\ sincePause' = sincePause + 1
    /\ LET resp == Provider(qi, (start \div LIPageStep) + 1) IN
       \/ /\ resp.fail
          /\ events' = Append(events, ErrorEv)
          /\ pc' = "ended"
          /\ UNCHANGED <<page, qi>>
       \/ /\ ~resp.fail
          /\ resp.recs = <<>>
          /\ qi' = qi + 1
          /\ pc' = "query"
          /\ UNCHANGED <<page, events>>
       \/ /\ ~resp.fail
          /\ resp.recs # <<>>
          /\ page' = resp.recs
          /\ pc' = "rec"
          /\ UNCHANGED <<qi, events>>
    /\ UNCHANGED <<cfg, httpStatus, pitch, keyOut, leads, seen, start, hist, flv, xlsx>>

\* scraper_linkedin.py:203-205, 247-248
LIPageEnd ==
    /\ prog = "li"
    /\ pc = "rec"
    /\ (page = <<>> \/ LimitReached(Len(leads), limit))
    /\ page' = <<>>
    /\ start' = LINextStart(start)
    /\ sincePause' = 0
    /\ pc' = "loop"
    /\ UNCHANGED <<cfg, httpStatus, pitch, fetched, keyOut, leads, seen, qi, events, hist, calls, flv, xlsx>>

\* scraper_linkedin.py:207-245: one search result
LIRecord ==
    /\ prog = "li"
    /\ pc = "rec"
    /\ page # <<>>
    /\ ~LimitReached(Len(leads), limit)
    /\ LET link == Head(page).link IN
       /\ page' = Tail(page)
       /\ IF ~HasIn(link) \/ link \in seen
          THEN UNCHANGED <<seen, leads, events, sincePause>>
          ELSE \E outcome \in MatchOutcomes :
                 /\ seen' = seen \cup {link}
                 /\ sincePause' = sincePause
                        + (IF outcome = "unavailable" THEN 0 ELSE 1)
                 /\ leads' = Append(leads,
                        [link |-> link, match_reason |-> EvaluateMatch(outcome)])
                 /\ events' = events
                        \o <<LogEv, ProgressEv(Len(leads) + 1, limit)>>
    /\ UNCHANGED <<cfg, httpStatus, pitch, fetched, pc, keyOut, start, qi, hist, calls,
                   flv, xlsx>>

\* scraper_linkedin.py:254-268
LIExport ==
    /\ prog = "li"
    /\ pc = "export"
    /\ pc' = "ended"
    /\ \/ /\ leads = <<>>
          /\ events' = events \o <<LogEv, DoneEv(Len(leads))>>
          /\ xlsx' = xlsx
       \/ /\ leads # <<>>
          /\ events' = events \o <<LogEv, LogEv, DoneEv(Len(leads))>>
          /\ xlsx' = TRUE
       \/ /\ leads # <<>>
          /\ events' = events \o <<LogEv, ErrorEv>>
          /\ xlsx' = xlsx
    /\ UNCHANGED <<cfg, aux, keyOut, leads, seen, start, qi, page, hist, calls, flv>>

(***************************************************************************)
(* generate_b2b_partners (scraper_b2b.py:176-281).                         *)
(***************************************************************************)
\* extract_email_and_phone_from_url (scraper_b2b.py:11-49) catches
\* requests.exceptions.RequestException only: any other exception leaves it.
ExtractRaises(outcome) == outcome = "parse"

\* The e-mail it returns when it returns.
ExtractEmail(outcome) == IF outcome = "found" THEN "e@x" ELSE "N/A"

\* scraper_b2b.py:182-191
B2BStart ==
    /\ prog = "b2b"
    /\ pc = "start"
    /\ events' = Append(events, LogEv)
    /\ pc' = "loop"
    /\ UNCHANGED <<cfg, aux, keyOut, leads, seen, start, qi, page, hist, calls, flv, xlsx>>

\* scraper_b2b.py:193-208, 263-265: the one provider call
B2BFetch ==
    /\ prog = "b2b"
    /\ pc = "loop"
    /\ calls' = calls + 1
    /\ fetched' = Append(fetched, <<1, 0>>)
    /\ LET resp == Provider(1, 1) IN
       \/ /\ resp.fail
          /\ events' = Append(events, ErrorEv)
          /\ pc' = "ended"
          /\ page' = <<>>
       \/ /\ ~resp.fail
          /\ resp.recs = <<>>
          /\ events' = Append(events, ErrorEv)
          /\ pc' = "ended"
          /\ page' = <<>>
       \/ /\ ~resp.fail
          /\ resp.recs # <<>>
          /\ events' = events
          /\ pc' = "rec"
          /\ page' = resp.recs
    /\ UNCHANGED <<cfg, httpStatus, pitch, sincePause, keyOut, leads, seen, start, qi,
                   hist, flv, xlsx>>

\* scraper_b2b.py:210-212 and the end of the for loop
B2BPageEnd ==
    /\ prog = "b2b"
    /\ pc = "rec"
    /\ (page = <<>> \/ LimitReached(Len(leads), limit))
    /\ page' = <<>>
    /\ pc' = "export"
    /\ UNCHANGED <<cfg, aux, keyOut, leads, seen, start, qi, events, hist, calls, flv, xlsx>>

\* scraper_b2b.py:214-261: one business
B2BRecord ==
    /\ prog = "b2b"
    /\ pc = "rec"
    /\ page # <<>>
    /\ ~LimitReached(Len(leads), limit)
    /\ LET r == Head(page) IN
       /\ page' = Tail(page)
       /\ IF ~Truthy(r.title)
          THEN /\ hist' = Append(hist,
                      [rec |-> r, scraped |-> FALSE, failed |-> FALSE,
                       email |-> "", accepted |-> FALSE, saved |-> FALSE])
               /\ UNCHANGED <<leads, events, pc>>
          ELSE \E outcome \in ScrapeOutcomes :
                 LET scraped == Truthy(r.website)
                     raised == scraped /\ ExtractRaises(outcome)
                     email == IF scraped THEN ExtractEmail(outcome) ELSE "N/A"
                     scrapeLogs == IF scraped THEN <<LogEv, LogEv>> ELSE <<LogEv>>
                 IN  /\ hist' = Append(hist,
                            [rec |-> r, scraped |-> scraped,
                             failed |-> scraped /\ outcome \in ScrapeFailures,
                             email |-> email, accepted |-> ~raised, saved |-> FALSE])
                     /\ IF raised
                        THEN /\ events' = events \o scrapeLogs \o <<ErrorEv>>
                             /\ pc' = "ended"
                             /\ leads' = leads
                        ELSE /\ leads' = Append(leads, GLLead(r, email))
                             /\ events' = events \o scrapeLogs
                                    \o <<LogEv, ProgressEv(Len(leads) + 1, limit)>>
                             /\ pc' = pc
    /\ UNCHANGED <<cfg, aux, keyOut, seen, start, qi, calls, flv, xlsx>>

\* scraper_b2b.py:267-281
B2BExport ==
    /\ prog = "b2b"
    /\ pc = "export"
    /\ pc' = "ended"
    /\ \/ /\ leads = <<>>
          /\ events' = events \o <<LogEv, DoneEv(Len(leads))>>
          /\ xlsx' = xlsx
       \/ /\ leads # <<>>
          /\ events' = events \o <<LogEv, LogEv, DoneEv(Len(leads))>>
          /\ xlsx' = TRUE
       \/ /\ leads # <<>>
          /\ events' = events \o <<LogEv, ErrorEv>>
          /\ xlsx' = xlsx
    /\ UNCHANGED <<cfg, aux, keyOut, leads, seen, start, qi, page, hist, calls, flv>>

(***************************************************************************)
(* analyze_csv_file (analyzer.py:123-312).  The rows of the uploaded CSV   *)
(* are the records of the provider's first MaxPages pages.                 *)
(***************************************************************************)
RECURSIVE RecsUpTo(_)
RecsUpTo(p) ==
    IF p = 0 THEN <<>> ELSE RecsUpTo(p - 1) \o Provider(1, p).recs

CsvRows == RecsUpTo(MaxPages)

\* extract_website_data (analyzer.py:14-48): what the two requests obtain.
ExtractOutcomes == {"both", "image", "text", "neither"}

\* A mutant of RowStatus: a website that gave nothing is still pending.
RowStatusNeverUnreachable(website, outcome) ==
    IF ~Truthy(website) THEN "N/A" ELSE "Pending Contact"

\* analyzer.py:161-183: the Status of a row
RowStatus(website, outcome) ==
    IF ~Truthy(website) THEN "N/A"
    ELSE IF outcome # "neither" THEN "Pending Contact"
    ELSE "Unreachable"

\* analyzer.py:128-152, 311-312
ANStart ==
    /\ prog = "an"
    /\ pc = "start"
    /\ \/ /\ inputKind = "missing"
          /\ events' = Append(events, ErrorEv)
          /\ pc' = "ended"
          /\ page' = page
       \/ /\ inputKind \in {"unreadable", "nocolumn"}
          /\ events' = events \o <<LogEv, ErrorEv>>
          /\ pc' = "ended"
          /\ page' = page
       \/ /\ inputKind = "ok"
          /\ events' = events \o <<LogEv, LogEv>>
          /\ pc' = "rec"
          /\ page' = CsvRows
    /\ UNCHANGED <<cfg, aux, keyOut, leads, seen, start, qi, hist, calls, flv, xlsx>>

\* analyzer.py:157-195: one row
ANRecord ==
    /\ prog = "an"
    /\ pc = "rec"
    /\ page # <<>>
    /\ LET website == Some(CsvCell(Head(page).website)) IN
       \E outcome \in ExtractOutcomes :
         /\ leads' = Append(leads,
                [website |-> website, Status |-> RowStatus(website, outcome)])
         /\ events' = events
              \o (IF ~Truthy(website) THEN <<LogEv>>
                  ELSE IF outcome # "neither" THEN <<LogEv, LogEv, LogEv>>
                  ELSE <<LogEv, LogEv>>)
              \o <<ProgressEv(Len(leads) + 1, Len(CsvRows))>>
         /\ hist' = Append(hist,
                [rec |-> Head(page), scraped |-> Truthy(website),
                 failed |-> Truthy(website) /\ outcome = "neither",
                 email |-> "", accepted |-> TRUE, saved |-> FALSE])
    /\ page' = Tail(page)
    /\ UNCHANGED <<cfg, aux, pc, keyOut, seen, start, qi, calls, flv, xlsx>>

\* analyzer.py:200-312: the workbook, then the done event
ANExport ==
    /\ prog = "an"
    /\ pc = "rec"
    /\ page = <<>>
    /\ pc' = "ended"
    /\ \/ /\ events' = events \o <<LogEv, LogEv, DoneEv(Len(CsvRows))>>
          /\ xlsx' = TRUE
       \/ /\ events' = events \o <<LogEv, ErrorEv>>
          /\ xlsx' = xlsx
    /\ UNCHANGED <<cfg, aux, keyOut, leads, seen, start, qi, page, hist, calls, flv>>

Next ==
    \/ KeyStep
    \/ CsvRead
    \/ CsvLookup
    \/ CsvRewrite
    \/ PathTick
    \/ PathRun
    \/ RouteRequest
    \/ PitchStep
    \/ LIStart
    \/ LIQuery
    \/ LILoopExit
    \/ LIFetch
    \/ LIPageEnd
    \/ LIRecord
    \/ LIExport
    \/ B2BStart
    \/ B2BFetch
    \/ B2BPageEnd
    \/ B2BRecord
    \/ B2BExport
    \/ ANStart
    \/ ANRecord
    \/ ANExport
    \/ FLStartFresh
    \/ FLStartResume
    \/ FLLoopExit
    \/ FLFetch
    \/ FLPageEnd
    \/ FLRecord
    \/ FLRestart
    \/ GLStart
    \/ GLLoopExit
    \/ GLFetch
    \/ GLPageEnd
    \/ GLRecord
    \/ GLExport

Spec == Init /\ [][Next]_vars

FairSpec == Spec /\ WF_vars(Next)

(***************************************************************************)
(*                              Properties                                 *)
(***************************************************************************)
HistIdx == 1 .. Len(hist)
SameKey(i, j) == DedupKey(hist[i].rec) = DedupKey(hist[j].rec)
AcceptedIdx == {i \in HistIdx : hist[i].accepted}

IsProgress(e) == e.type = "progress"
IsOutcome(e) == e.type \in {"done", "error"}
ProgressEvents == SelectSeq(events, IsProgress)

\* The identity fields of lead l are those of raw record r.
LeadOf(l, r) == l.title = r.title /\ l.phone = r.phone /\ l.address = r.address

RECURSIVE AcceptedRecs(_)
AcceptedRecs(h) ==
    IF h = <<>> THEN <<>>
    ELSE IF Head(h).accepted THEN <<Head(h).rec>> \o AcceptedRecs(Tail(h))
    ELSE AcceptedRecs(Tail(h))

RECURSIVE SavedRecs(_)
SavedRecs(h) ==
    IF h = <<>> THEN <<>>
    ELSE IF Head(h).saved THEN <<Head(h).rec>> \o SavedRecs(Tail(h))
    ELSE SavedRecs(Tail(h))

\* The leads of generate_leads are the accepted records, in order; the rows
\* fetch_leads appended in this run are the rows of the accepted records
\* whose write returned.
HistMatchesOutput ==
    LET acc == AcceptedRecs(hist)
        sav == SavedRecs(hist)
    IN
    /\ prog = "gl" =>
         /\ Len(leads) = Len(acc)
         /\ \A i \in 1 .. Len(acc) : LeadOf(leads[i], acc[i])
    /\ prog = "fl" =>
         /\ Len(file.rows) = rowsAtStart + Len(sav)
         /\ \A i \in 1 .. Len(sav) :
              LeadOf(file.rows[rowsAtStart + i], ToRow(GLLead(sav[i], "")))

\* C1: within one run of generate_leads or fetch_leads, of all raw records
\* with the same Identity Key at most the first is accepted, so no two
\* accepted (appended, persisted) leads of the run share a key.
C1_DedupWithinRun ==
    prog \in {"gl", "fl"} =>
      /\ HistMatchesOutput
      /\ \A i, j \in HistIdx : (i < j /\ SameKey(i, j)) => ~hist[j].accepted
      /\ \A i, j \in AcceptedIdx : i # j => ~SameKey(i, j)

\* A run accepted a record and later met another record with the same key.
C1_Witness ==
    /\ prog \in {"gl", "fl"}
    /\ \E i, j \in HistIdx :
         /\ i < j
         /\ SameKey(i, j)
         /\ hist[i].accepted
         /\ hist[i].rec # hist[j].rec

(***************************************************************************)
(* The reference rule for the Identity Key (spec section 3): the phone if  *)
(* present and non-empty; otherwise "{name}|{address}" if the address is   *)
(* present (non-empty); otherwise the bare name.  The template renders an  *)
(* absent name as the text None.                                           *)
(***************************************************************************)
Present(v) == v \notin {None, Some("")}
Rendered(v) == IF v = None THEN "None" ELSE v[1]
RefKey(r) ==
    CASE Present(r.phone) -> r.phone
      [] ~Present(r.phone) /\ Present(r.address) ->
            Some(Rendered(r.title) \o "|" \o r.address[1])
      [] OTHER -> r.title

AllNamed ==
    /\ \A i \in 1 .. Len(leads) : Truthy(leads[i].title)
    /\ \A i \in 1 .. Len(file.rows) : Truthy(file.rows[i].title)

\* C5 as claimed: a raw record whose name is empty or absent is never
\* accepted by generate_leads or fetch_leads, whatever its phone and
\* address are: no lead, no progress event, no persisted row.
C5_NamelessNeverAccepted ==
    prog \in {"gl", "fl"} =>
      /\ AllNamed
      /\ \A i \in HistIdx : ~Truthy(hist[i].rec.title) => ~hist[i].accepted

Contactless(r) == ~Truthy(r.title) /\ ~Truthy(r.phone) /\ ~Truthy(r.address)

\* C5 as amended: a raw record whose name, phone and address are all empty
\* or absent is never accepted: it produces no lead, no progress event and
\* no persisted row.
C5_ContactlessNeverAccepted ==
    prog \in {"gl", "fl"} =>
      /\ HistMatchesOutput
      /\ \A i \in HistIdx : Contactless(hist[i].rec) => ~hist[i].accepted
      /\ \A i \in 1 .. Len(leads) : ~Contactless(leads[i])
      /\ \A i \in 1 .. Len(file.rows) : ~Contactless(file.rows[i])
      /\ prog = "gl" => Len(ProgressEvents) = Len(leads)

\* A run examined a record with no name, no phone and no address while it
\* was still short of its limit, and went on to accept another record.
C5_Witness ==
    /\ prog \in {"gl", "fl"}
    /\ \E i, j \in HistIdx :
         /\ i < j
         /\ Contactless(hist[i].rec)
         /\ hist[j].accepted

\* C6: in every event stream of generate_leads, generate_linkedin_leads,
\* generate_b2b_partners and analyze_csv_file the k-th progress event has
\* count k (the first has count 1, each later one exactly one more than the
\* one before it), and every progress event has count <= total.
C6_ProgressCounts ==
    prog \in {"gl", "li", "b2b", "an"} =>
      \A k \in 1 .. Len(ProgressEvents) :
        /\ ProgressEvents[k].count = k
        /\ k > 1 => ProgressEvents[k].count = ProgressEvents[k - 1].count + 1
        /\ ProgressEvents[k].count <= ProgressEvents[k].total

\* A stream holds at least two progress events and the last one has reached
\* its total.
C6_Witness ==
    /\ prog \in {"gl", "li", "b2b", "an"}
    /\ Len(ProgressEvents) >= 2
    /\ ProgressEvents[Len(ProgressEvents)].count
         = ProgressEvents[Len(ProgressEvents)].total

\* Record i of the history is the first with its key, has a key, and fails
\* a filter the run requires.
FailsFilter(i) ==
    \/ reqWebsite /\ ~Truthy(hist[i].rec.website)
    \/ reqEmail /\ hist[i].email = ""
FilteredFirst(i) ==
    /\ Truthy(DedupKey(hist[i].rec))
    /\ \A j \in HistIdx : j < i => ~SameKey(j, i)
    /\ FailsFilter(i)

\* C9: in generate_leads with require_email or require_website set, a record
\* that fails the required filter is not added to the leads, produces no
\* progress event and does not count toward the limit, but its key stays in
\* the seen-set: a later record with the same key is never scraped or
\* accepted in the same run.
C9_FilteredStaysSeen ==
    (prog = "gl" /\ (reqEmail \/ reqWebsite)) =>
      /\ HistMatchesOutput
      /\ Len(ProgressEvents) = Len(leads)
      /\ Len(leads) <= limit \/ leads = <<>>
      /\ \A i \in HistIdx : FilteredFirst(i) =>
           /\ ~hist[i].accepted
           /\ DedupKey(hist[i].rec) \in seen
           /\ \A j \in HistIdx : (i < j /\ SameKey(i, j)) =>
                (~hist[j].scraped /\ ~hist[j].accepted)

\* A record was filtered out, a later record with the same key and a website
\* was met, and the run went on to accept another record.
C9_Witness ==
    /\ prog = "gl"
    /\ \E i, j, k \in HistIdx :
         /\ i < j
         /\ FilteredFirst(i)
         /\ SameKey(i, j)
         /\ Truthy(hist[j].rec.website)
         /\ hist[k].accepted

\* C10 as claimed: in generate_leads, generate_b2b_partners,
\* generate_linkedin_leads and analyze_csv_file a failure inside an
\* enrichment sub-step never aborts the record or the run: the record is
\* accepted with empty or placeholder values (unless generate_leads requires
\* the e-mail), every profile carries a match reason and every analysed row
\* a Status.
C10_EnrichmentIsolated ==
    /\ prog \in {"gl", "b2b"} =>
         \A i \in HistIdx : hist[i].failed =>
           /\ hist[i].email \in {"", "N/A"}
           /\ hist[i].accepted \/ (prog = "gl" /\ reqEmail)
    /\ prog = "li" =>
         \A i \in 1 .. Len(leads) : leads[i].match_reason # ""
    /\ prog = "an" =>
         \A i \in 1 .. Len(leads) :
           leads[i].Status \in {"N/A", "Pending Contact", "Unreachable"}

\* C3 as claimed: once fetch_leads has started against an existing file, the
\* key of every row the file held is in the seen-set (also when reading the
\* file failed part-way), so no record already in the file is scraped or
\* appended again.
InFileAtStart(r) ==
    \E k \in 1 .. rowsAtStart : LeadOf(file.rows[k], ToRow(GLLead(r, "")))
C3_ResumeLoadsEveryKey ==
    (prog = "fl" /\ pc # "start" /\ rowsAtStart > 0) =>
      /\ \A k \in 1 .. rowsAtStart : DedupKey(file.rows[k]) \in seen
      /\ \A i \in HistIdx : InFileAtStart(hist[i].rec) =>
           (~hist[i].scraped /\ ~hist[i].accepted)

(***************************************************************************)
(* Reference runs.  The distinct keyed records of a sequence, in order of  *)
(* first occurrence, up to lim of them.                                    *)
(***************************************************************************)
RECURSIVE FirstDistinct(_, _, _, _)
FirstDistinct(recs, keys, acc, lim) ==
    IF recs = <<>> \/ Len(acc) >= lim THEN acc
    ELSE LET r == Head(recs)
             key == RefKey(r)
         IN  IF Truthy(key) /\ key \notin keys
             THEN FirstDistinct(Tail(recs), keys \cup {key}, Append(acc, r), lim)
             ELSE FirstDistinct(Tail(recs), keys, acc, lim)

\* The records generate_leads is served: the pages of the query up to the
\* first page that is empty or fails.
RECURSIVE PagesFrom(_)
PagesFrom(p) ==
    LET resp == Provider(1, p) IN
    IF resp.fail \/ resp.recs = <<>> THEN <<>>
    ELSE resp.recs \o PagesFrom(p + 1)

\* The records fetch_leads is served: the first page of every query.
RECURSIVE FirstPages(_)
FirstPages(q) ==
    IF q > nq THEN <<>> ELSE Provider(q, 1).recs \o FirstPages(q + 1)

RowKeys(rows) == {DedupKey(rows[i]) : i \in 1 .. Len(rows)}

\* The rows an uninterrupted fetch_leads run leaves in a fresh file.
UninterruptedRows ==
    LET acc == FirstDistinct(FirstPages(1), {}, <<>>, limit) IN
    [i \in 1 .. Len(acc) |-> ToRow(GLLead(acc[i], ""))]

\* C2 as claimed: whether or not fetch_leads was interrupted and restarted
\* against the same file, it ends with the set of persisted keys of the
\* uninterrupted run, and the file holds no key twice.
C2_IdempotentResume ==
    (prog = "fl" /\ pc = "ended") =>
      /\ RowKeys(file.rows) = RowKeys(UninterruptedRows)
      /\ \A i, j \in 1 .. Len(file.rows) :
           i # j => DedupKey(file.rows[i]) # DedupKey(file.rows[j])

\* The uninterrupted run itself ends with the rows of the reference.
UninterruptedMatchesReference ==
    (prog = "fl" /\ pc = "ended" /\ restarts = 0 /\ SaveFailures(hist) = 0) =>
      /\ Len(file.rows) = Len(UninterruptedRows)
      /\ \A i \in 1 .. Len(file.rows) : LeadOf(file.rows[i], UninterruptedRows[i])

Unfiltered == ~reqEmail /\ ~reqWebsite
NoProviderFailure == \A p \in 1 .. calls : ~Provider(1, p).fail
ExpectedLeads == FirstDistinct(PagesFrom(1), {}, <<>>, limit)
OutcomeEvents == SelectSeq(events, IsOutcome)

\* What C8 says a run of generate_leads has accepted and reported when it
\* has ended.
AcceptsFirstDistinct ==
    /\ Len(leads) = Len(ExpectedLeads)
    /\ \A i \in 1 .. Len(leads) : LeadOf(leads[i], ExpectedLeads[i])
    /\ Len(ProgressEvents) = Len(leads)
    /\ \A k \in 1 .. Len(ProgressEvents) : ProgressEvents[k].count = k

\* C8 as claimed: with no filters and no provider failure generate_leads
\* accepts exactly the first min(limit, d) distinct keys in order of first
\* occurrence, emits progress counts 1..n and then exactly one done event
\* with count n.
C8_FirstDistinctThenDone ==
    (prog = "gl" /\ pc = "ended" /\ Unfiltered /\ NoProviderFailure) =>
      /\ AcceptsFirstDistinct
      /\ OutcomeEvents = <<DoneEv(Len(leads))>>
      /\ events[Len(events)] = DoneEv(Len(leads))

\* C8 as amended: with no filters and no provider failure generate_leads
\* accepts exactly the first min(limit, d) distinct keys in order of first
\* occurrence (none when the limit is not positive), emits progress counts
\* 1..n and then exactly one outcome event, the last of the stream: done
\* with count n when the workbook was written or there was nothing to
\* write, error when writing the workbook failed.
C8_FirstDistinctThenOutcome ==
    (prog = "gl" /\ pc = "ended" /\ Unfiltered /\ NoProviderFailure) =>
      /\ AcceptsFirstDistinct
      /\ Len(OutcomeEvents) = 1
      /\ events[Len(events)] = OutcomeEvents[1]
      /\ (xlsx \/ leads = <<>>) <=> OutcomeEvents = <<DoneEv(Len(leads))>>
      /\ (~xlsx /\ leads # <<>>) <=> OutcomeEvents = <<ErrorEv>>

\* The run of the example: limit 3, the provider serves keys that repeat
\* within and across pages, three distinct leads are accepted and reported.
C8_Witness ==
    /\ prog = "gl"
    /\ pc = "ended"
    /\ Unfiltered
    /\ NoProviderFailure
    /\ limit = 3
    /\ Len(leads) = 3
    /\ Len(hist) > 3
    /\ [k \in 1 .. 3 |-> ProgressEvents[k].count] = <<1, 2, 3>>
    /\ OutcomeEvents = <<DoneEv(3)>>

(***************************************************************************)
(* Termination.  The provider of the model is finite: page MaxPages + 1 of *)
(* every query is empty.                                                   *)
(***************************************************************************)
Min(a, b) == IF a < b THEN a ELSE b
CallBound ==
    CASE prog = "gl" -> MaxPages + 1
      [] prog = "li" -> nq * Min(LIMaxStart \div LIPageStep, MaxPages + 1)
      [] prog = "fl" -> nq
      [] OTHER -> 1

\* C7: against a provider that returns zero records after finitely many
\* pages, every run of generate_leads, generate_linkedin_leads and
\* fetch_leads makes a bounded number of provider calls and eventually ends,
\* for every limit and every setting of the filters.  (A request the route
\* rejects starts no run.)
C7_RunsEnd ==
    /\ [](prog \in {"gl", "li", "fl"} => calls <= CallBound)
    /\ ((prog \in {"gl", "li", "fl"} /\ (req = NoRequest \/ RequestAccepted(req)))
          => <>(pc = "ended"))

\* A run of generate_leads ended short of its limit after the provider was
\* exhausted, having met only duplicates and rejected records on the way.
C7_Witness ==
    /\ prog = "gl"
    /\ pc = "ended"
    /\ calls = MaxPages + 1
    /\ Len(leads) < limit
    /\ \E i \in HistIdx : ~hist[i].accepted

(***************************************************************************)
(* Provider calls of the run, by position in fetched.                      *)
(***************************************************************************)
FetchIdx == 1 .. Len(fetched)
PageStep == IF prog = "li" THEN LIPageStep ELSE GLPageStep
FetchFailed(k) ==
    Provider(fetched[k][1], (fetched[k][2] \div PageStep) + 1).fail

\* C11 as claimed: in generate_linkedin_leads and fetch_leads a provider call
\* that fails for one query abandons only that query: when the run has
\* ended, every query after a failed call has been tried (the limit cannot
\* have been reached by a failed call), and the leads accepted before the
\* failure are still held.
C11_FailureAbandonsOnlyQuery ==
    (prog \in {"li", "fl"} /\ pc = "ended") =>
      \A k \in FetchIdx :
        (FetchFailed(k) /\ fetched[k][1] < nq) =>
          \E j \in FetchIdx : j > k /\ fetched[j][1] = fetched[k][1] + 1

\* C12 as claimed: in fetch_leads every record accepted in this run is a row
\* of the file before the next raw record is examined, so a kill at any
\* point loses at most the record in flight.
C12_AcceptedIsPersisted ==
    prog = "fl" =>
      /\ Len(file.rows) - rowsAtStart >= Len(AcceptedRecs(hist))
      /\ \A i \in 1 .. Len(AcceptedRecs(hist)) :
           \E k \in 1 .. Len(file.rows) :
             LeadOf(file.rows[k], ToRow(GLLead(AcceptedRecs(hist)[i], "")))

\* C13 as claimed: when a run of generate_leads, generate_linkedin_leads or
\* generate_b2b_partners ends with an error event after k > 0 progress
\* events, the k accepted records are in the run's output workbook.
C13_PartialProgressSurvives ==
    (/\ prog \in {"gl", "li", "b2b"}
     /\ pc = "ended"
     /\ events # <<>>
     /\ events[Len(events)] = ErrorEv
     /\ Len(ProgressEvents) > 0) => xlsx

\* C14 as claimed: whatever calls of save_lead_incrementally, runs and
\* restarts the output file has seen, a file that holds data rows holds
\* exactly one header row (written before any data row, on the first write).
C14_OneHeader ==
    (prog = "fl" /\ file.rows # <<>>) => file.headers = 1

\* C17 as claimed: in fetch_leads a failed write of save_lead_incrementally
\* is fatal: the record whose write failed is the last one examined, the run
\* has ended without a further provider call, and the record is not counted
\* toward the limit.
C17_SinkFailureIsFatal ==
    prog = "fl" =>
      \A i \in HistIdx : (hist[i].accepted /\ ~hist[i].saved) =>
        /\ i = Len(hist)
        /\ pc = "ended"
        /\ \A k \in 1 .. Len(leads) :
             leads[k] # GLLead(hist[i].rec, hist[i].email)

\* C15: every event stream of generate_leads, generate_linkedin_leads,
\* generate_b2b_partners and analyze_csv_file holds at most one outcome event
\* (done or error) while the run is going, exactly one when it has ended,
\* and that event is the last of the stream: nothing follows it.
C15_OneOutcomeLast ==
    prog \in {"gl", "li", "b2b", "an"} =>
      /\ Len(OutcomeEvents) <= 1
      /\ Len(OutcomeEvents) = 1 =>
           (events[Len(events)] = OutcomeEvents[1] /\ pc = "ended")
      /\ pc = "ended" => Len(OutcomeEvents) = 1

\* A run reported progress and then ended with an error event, its last.
C15_Witness ==
    /\ prog \in {"gl", "li", "b2b", "an"}
    /\ pc = "ended"
    /\ Len(ProgressEvents) > 0
    /\ OutcomeEvents = <<ErrorEv>>
    /\ events[Len(events)] = ErrorEv

Max(a, b) == IF a > b THEN a ELSE b
IsDone(e) == e.type = "done"

\* C16: whenever generate_leads, generate_linkedin_leads or
\* generate_b2b_partners emits a done event, its count is the number of
\* progress events emitted before it, which is the number of accepted
\* records, and is at most max(limit, 0).
C16_DoneCount ==
    prog \in {"gl", "li", "b2b"} =>
      \A k \in 1 .. Len(events) : IsDone(events[k]) =>
        /\ events[k].count = Len(SelectSeq(SubSeq(events, 1, k - 1), IsProgress))
        /\ events[k].count = Len(leads)
        /\ prog \in {"gl", "b2b"} => events[k].count = Cardinality(AcceptedIdx)
        /\ events[k].count <= Max(limit, 0)

\* A run ended with a done event after at least two accepted records.
C16_Witness ==
    /\ prog \in {"gl", "li", "b2b"}
    /\ pc = "ended"
    /\ Len(leads) >= 2
    /\ IsDone(events[Len(events)])
    /\ events[Len(events)].count = Len(leads)

\* The reference condition of C18: the keyword (goal) or the location is
\* empty, or neither the request nor the environment holds an API key.
MissingInput(r) ==
    \/ r.keyword = ""
    \/ r.location = ""
    \/ (Strip(r.api_key) = "" /\ r.env_serp = None)

\* C18: a /generate or /generate_linkedin request with an empty keyword or
\* goal, an empty location, or no API key from the request or the
\* environment is answered with an error response at once and the run never
\* starts: no provider call is made, no record is examined and no event is
\* emitted.
C18_InvalidRequestRejected ==
    (req # NoRequest /\ MissingInput(req)) =>
      /\ pc \in {"request", "rejected"}
      /\ pc = "rejected" => httpStatus = 400
      /\ events = <<>>
      /\ calls = 0
      /\ hist = <<>>
      /\ leads = <<>>

\* A request with keyword and location whose api_key is blank, in an
\* environment without a key, has been rejected.
C18_Witness ==
    /\ req # NoRequest
    /\ req.keyword = "k"
    /\ req.location = "l"
    /\ req.api_key = " "
    /\ req.env_serp = None
    /\ pc = "rejected"
    /\ httpStatus = 400

\* C19 as claimed: generate_website_pitch returns exactly 3 strings or a
\* single-element list, for every input and every AI response; never an
\* empty list, never a list of 2 elements.
C19_ThreeOrOne ==
    (prog = "pitch" /\ pc = "ended") => Len(pitch) \in {1, 3}

\* C19 as amended: generate_website_pitch never raises and returns a
\* non-empty list of at most 3 strings: the first 3 items of a JSON list of
\* 3 or more items, all the items of a JSON list of 1 or 2 items, and a
\* single-element list holding a fallback or diagnostic string in every
\* other case (empty list, non-list JSON, non-JSON text, missing text,
\* client exception, no scraped data).
C19_OneToThree ==
    (prog = "pitch" /\ pc = "ended") =>
      /\ Len(pitch) \in 1 .. 3
      /\ (pitchIn.scraped /\ pitchIn.kind = "list" /\ pitchIn.len >= 3)
           => Len(pitch) = 3
      /\ (pitchIn.scraped /\ pitchIn.kind = "list" /\ pitchIn.len \in {1, 2})
           => Len(pitch) = pitchIn.len
      /\ ~(pitchIn.scraped /\ pitchIn.kind = "list" /\ pitchIn.len > 0)
           => (Len(pitch) = 1 /\ pitch[1] # "point")

\* The AI answered with a list of more than three points and three were
\* returned.
C19_Witness ==
    /\ prog = "pitch"
    /\ pc = "ended"
    /\ pitchIn.scraped
    /\ pitchIn.kind = "list"
    /\ pitchIn.len > 3
    /\ Len(pitch) = 3

\* The one page cap the code configures: while ... start < 30, start += 10.
PagesPerQuery == LIMaxStart \div LIPageStep

\* C20 as claimed: generate_leads and generate_linkedin_leads make at most a
\* fixed number of provider calls per query whatever the provider returns
\* (3 pages, cursors 0, 10 and 20, for generate_linkedin_leads), and never
\* fetch the same (query, cursor) pair twice in one run.
C20_PagesPerQueryBounded ==
    prog \in {"gl", "li"} =>
      /\ \A q \in 1 .. nq :
           Cardinality({k \in FetchIdx : fetched[k][1] = q}) <= PagesPerQuery
      /\ \A j, k \in FetchIdx : j # k => fetched[j] # fetched[k]
      /\ prog = "li" =>
           \A k \in FetchIdx : fetched[k][2] \in {0, LIPageStep, 2 * LIPageStep}


(***************************************************************************)
(* Claims C21..C30.                                                        *)
(***************************************************************************)
\* C21 as claimed: in generate_leads, generate_linkedin_leads and fetch_leads,
\* once the number of accepted records (rows loaded on resume included) has
\* reached the limit, no step of the run makes a provider call or examines
\* (and so enriches) a record; and a run started with limit <= 0, or on a
\* file that already holds limit rows, makes no provider call at all.
C21_LimitStopsCalls ==
    /\ [][(prog \in {"gl", "li", "fl"} /\ LimitReached(Len(leads), limit)) =>
            (calls' <= calls /\ Len(hist') <= Len(hist))]_vars
    /\ []((prog \in {"gl", "li", "fl"} /\ pc # "start"
           /\ (limit <= 0 \/ rowsAtStart >= limit)) => calls = 0)

\* The part of C21 that the code keeps: a step taken with the limit reached
\* makes no provider call and examines no record.
C21_NoCallAtLimit ==
    [][(prog \in {"gl", "li", "fl"} /\ LimitReached(Len(leads), limit)) =>
         (calls' <= calls /\ Len(hist') <= Len(hist))]_vars

\* C22 as claimed: in every run of generate_leads, generate_linkedin_leads and
\* fetch_leads, every network call (a provider fetch or an enrichment call)
\* is followed by a pause before the next network call of the run: at most
\* one network call has been made since the last pause.
C22_PauseAfterEveryCall ==
    prog \in {"gl", "li", "fl"} => sincePause <= 1

\* C23 as claimed: for any interleaving of runs started through the /generate
\* route, requests with the same keyword and location arriving within the
\* same second included, no two runs compute the same output path.
C23_RunTargetsDistinct ==
    prog = "paths" =>
      \A i, j \in 1 .. Len(paths) : i # j => paths[i] # paths[j]

\* The k-th provider call of the run succeeded and returned zero records.
FetchEmpty(k) ==
    LET resp == Provider(fetched[k][1], (fetched[k][2] \div PageStep) + 1)
    IN  ~resp.fail /\ resp.recs = <<>>

\* C24 as claimed: a run of generate_leads, generate_linkedin_leads or
\* generate_b2b_partners in which every provider call succeeded and returned
\* zero records ends with a done event with count 0, not with an error event.
C24_ZeroRecordsIsDone ==
    (/\ prog \in {"gl", "li", "b2b"}
     /\ pc = "ended"
     /\ \A k \in FetchIdx : FetchEmpty(k)) =>
      /\ events # <<>>
      /\ events[Len(events)] = DoneEv(0)
      /\ \A i \in 1 .. Len(events) : events[i] # ErrorEv

\* The same for generate_leads and generate_linkedin_leads alone, where it
\* holds.
C24_ZeroRecordsIsDoneGLLI ==
    (/\ prog \in {"gl", "li"}
     /\ pc = "ended"
     /\ \A k \in FetchIdx : FetchEmpty(k)) =>
      /\ events # <<>>
      /\ events[Len(events)] = DoneEv(0)
      /\ \A i \in 1 .. Len(events) : events[i] # ErrorEv

\* C25 as claimed: generate_b2b_partners keeps only the first of any two raw
\* records with the same Identity Key: no two records it accepts (and reports
\* through progress events) share an Identity Key.
C25_B2BDedup ==
    prog = "b2b" =>
      \A i, j \in AcceptedIdx : i # j => ~SameKey(i, j)

\* The key the resume load recomputes from the CSV row written for record r.
ReloadedKey(r) == DedupKey(ToRow(GLLead(r, "")))

\* C26 as claimed: for every record accepted by fetch_leads, the key
\* recomputed on resume from the CSV row save_lead_incrementally wrote for it
\* equals the key under which it was admitted, for every combination of
\* absent, empty and present phone, title and address.
C26_KeyRoundTrip ==
    /\ prog = "fl" =>
         \A i \in HistIdx : hist[i].saved => ReloadedKey(hist[i].rec) = DedupKey(hist[i].rec)
    /\ (prog = "key" /\ pc = "ended" /\ Admit(keyOut, {})) => ReloadedKey(rec) = keyOut

\* C27 as claimed: whenever generate_leads, generate_linkedin_leads or
\* generate_b2b_partners has emitted a done event, the workbook its
\* filename/path fields name has been written by the run, for every final
\* count, 0 included.
C27_DoneFileWritten ==
    (/\ prog \in {"gl", "li", "b2b"}
     /\ \E i \in 1 .. Len(events) : IsDone(events[i])) => xlsx

\* C28 as claimed: over any number of crash/restart cycles of fetch_leads
\* against the same output file with the same limit (limit >= 0), the number
\* of data rows in the file never exceeds the limit.
C28_RowsWithinLimit ==
    (prog = "fl" /\ limit >= 0) => Len(file.rows) <= limit

\* Without a restart the rows stay within the limit.
C28_RowsWithinLimitOneRun ==
    (prog = "fl" /\ limit >= 0 /\ restarts = 0) => Len(file.rows) <= limit

(***************************************************************************)
(* process_csv: the file before (csvIn) and after (file).                  *)
(***************************************************************************)
OtherFieldsSame(a, b) ==
    /\ a.title = b.title
    /\ a.address = b.address
    /\ a.phone = b.phone
    /\ a.website = b.website

\* The indices of the rows whose e-mail is empty or whitespace, in order.
RECURSIVE BlankFrom(_, _)
BlankFrom(rows, i) ==
    IF i > Len(rows) THEN <<>>
    ELSE (IF rows[i].email \in {"", " "} THEN <<i>> ELSE <<>>) \o BlankFrom(rows, i + 1)

\* Header, number and order of rows and every field but email are kept, and
\* the e-mail of the k-th looked-up row is the one found for it, or the old
\* one when nothing was found.
CsvFrameKept ==
    /\ file.exists = csvIn.exists
    /\ file.headers = (IF csvIn.exists THEN 1 ELSE 0)
    /\ Len(file.rows) = Len(csvIn.rows)
    /\ \A i \in 1 .. Len(file.rows) : OtherFieldsSame(file.rows[i], csvIn.rows[i])
    /\ Len(hist) <= Len(BlankFrom(csvIn.rows, 1))
    /\ \A k \in HistIdx :
         LET i == BlankFrom(csvIn.rows, 1)[k] IN
         file.rows[i].email = (IF hist[k].email # "" THEN hist[k].email
                               ELSE csvIn.rows[i].email)

C30_RowStatuses ==
    (prog = "an" /\ inputKind = "ok") =>
      LET n == Len(CsvRows) IN
      /\ Len(leads) <= n
      /\ Len(hist) = Len(leads)
      /\ ProgressEvents = [i \in 1 .. Len(leads) |-> ProgressEv(i, n)]
      /\ \A i \in 1 .. Len(leads) :
           /\ hist[i].rec = CsvRows[i]
           /\ leads[i].website = Some(CsvCell(CsvRows[i].website))
           /\ leads[i].Status \in {"N/A", "Pending Contact", "Unreachable"}
           /\ leads[i].Status = "N/A" <=> ~Truthy(leads[i].website)
           /\ leads[i].Status = "Unreachable" <=>
                (Truthy(leads[i].website) /\ hist[i].failed)
      /\ OutcomeEvents # <<>> => Len(leads) = n
      /\ \A k \in 1 .. Len(events) : IsDone(events[k]) => events[k] = DoneEv(n)

\* analyze_csv_file has ended with a done event after rows of which one had
\* no website and one had a website that gave neither screenshot nor text.
C30_Witness ==
    /\ prog = "an"
    /\ inputKind = "ok"
    /\ pc = "ended"
    /\ events[Len(events)] = DoneEv(Len(CsvRows))
    /\ \E i, j \in 1 .. Len(leads) :
         /\ leads[i].Status = "N/A"
         /\ leads[j].Status = "Unreachable"
====
